---------------------------- MODULE Spec2Model ----------------------------
(***************************************************************************)
(* College portal: the mentor request / assignment handlers, the           *)
(* registration and e-mail verification, the state / city lookups          *)
(* (core/views.py), the notifications (core/utils.py), the registration    *)
(* rate limiter and the admin quota guard (core/middleware.py,             *)
(* core/admin.py), over the relational store (core/models.py), its         *)
(* receivers (core/signals.py) and the cache.                              *)
(*                                                                         *)
(* Every ORM call commits on its own (no ATOMIC_REQUESTS in settings.py,   *)
(* no transaction.atomic in request_mentor / assign_mentor; register_post  *)
(* alone is wrapped in transaction.atomic), and gunicorn runs several sync *)
(* workers, so a handler is a sequence of store statements that interleave *)
(* with those of other handlers.                                           *)
(***************************************************************************)
EXTENDS Integers, Sequences, FiniteSets, TLC

(***************************************************************************)
(* Bounds of the model.                                                    *)
(***************************************************************************)
\* handler invocations started in one behaviour of the mentor workflow or of
\* the admin site
MaxOps == 4

\* registration requests started in one behaviour of the rate limiter
MaxPosts == 7

\* the clock advances in steps of TickLen seconds, up to MaxTime
TickLen == 30
MaxTime == 90

\* the clock of the registration advances in steps of HalfDay seconds, up to
\* MaxClock
HalfDay == 43200
MaxClock == 129600

\* EmailVerificationToken rows saved in one behaviour
MaxTokens == 2

\* calls of api_states / api_cities started in one behaviour
MaxLookups == 3

(***************************************************************************)
(* Constants of the program.                                               *)
(***************************************************************************)
\* views.py: expires_at=timezone.now() + timedelta(hours=24), in seconds
TokenLife == 86400

\* tests.py: expires_at=timezone.now() - timedelta(hours=1), in seconds
ExpiredLife == -3600

\* views.py: cache.set(cache_key, states, 60 * 60 * 24), in seconds
LookupLife == 86400

\* middleware.py: if count >= 5
RateLimit == 5

\* middleware.py: cache.set(key, count + 1, timeout=60)
RateWindow == 60

\* middleware.py, admin.py: if admin_count >= 4
AdminLimit == 4

\* forms.py: if active_assignments >= 10
MentorCapacity == 10

(***************************************************************************)
(* The population.                                                         *)
(***************************************************************************)
\* request-handler invocations that may be in flight at once
Procs == {"p1", "p2"}

\* auth.User rows: two students and the four accounts of migration 0002
Users == {"s1", "s2", "a1", "a2", "a3", "a4"}

\* User.is_staff after the migrations: create_superuser sets is_staff
InitialStaff == {"a1", "a2", "a3", "a4"}

\* User.is_superuser: create_superuser sets it too, and no handler changes it
Superusers == {"a1", "a2", "a3", "a4"}

\* users that own a UserProfile row (s2 registered without one)
Profiled == {"s1", "a1"}

\* Mentor rows
Mentors == {"m1", "m2"}

\* the null of UserProfile.assigned_mentor
NoMentor == "none"

\* the student that uses the request-mentor page beside the assignments
Requesters == {"s1"}

\* a request to /director/assign-mentor/: caller, method, user_id, mentor_id
\* (u404 and m404 are primary keys that match no row)
AssignReq(c, h, u, m) == [by |-> c, method |-> h, user |-> u, mentor |-> m]

\* the requests tried: the staff caller a1 assigning each mentor to the
\* student s1, and one request per way the handler can turn a caller away
\* (anon is a caller that is not logged in)
AssignRequests ==
    {AssignReq("a1", "POST", "s1", m) : m \in Mentors} \cup
    {AssignReq("a1", "POST", "s2", "m1"),
     AssignReq("a1", "POST", "a1", "m1"),
     AssignReq("a1", "POST", "a1", "m404"),
     AssignReq("a1", "GET", "a1", "m1"),
     AssignReq("anon", "POST", "s1", "m1"),
     AssignReq("s1", "POST", "s1", "m1"),
     AssignReq("a1", "GET", "s1", "m1"),
     AssignReq("a1", "POST", "u404", "m1"),
     AssignReq("a1", "POST", "s1", "m404")}

\* the e-mail addresses of the accounts of migration 0002
SiteEmails == {"admin@example.com", "admin2@example.com",
               "admin3@example.com", "admin4@example.com"}

\* the e-mail addresses typed into the registration form
RawEmails == {"Ann@x.in", "ann@x.in", "bob@x.in", "admin@example.com"}

\* a submission of the registration form: the address, whether the required
\* fields, the password confirmation and the password validators pass, and
\* whether the academic-record lists are well formed ("bad": a year that is
\* not a number, or lists of different lengths)
RegisterForms ==
    {[email |-> e, valid |-> TRUE, record |-> "ok"] : e \in RawEmails} \cup
    {[email |-> "bob@x.in", valid |-> FALSE, record |-> "ok"],
     [email |-> "bob@x.in", valid |-> TRUE, record |-> "bad"]}

\* the state parameter of api_cities: none, a state of the sample map, a state
\* outside it
StateParams == {"", "Goa", "Atlantis"}

\* an entry of the provider's list that carries no name (api_states) or is not
\* a string (api_cities)
NoName == "?"

\* what the provider answers: a list, or one of the ways the call fails (an
\* HTTP or connection error, the 10 s timeout, a body that is not the JSON
\* expected)
Payloads == {<<"Panaji", NoName, "Margao">>, <<>>}

ProviderOutcomes ==
    {[kind |-> "ok", data |-> d] : d \in Payloads} \cup
    {[kind |-> k, data |-> <<>>] : k \in {"error", "timeout", "malformed"}}

\* the names of the model in the order of list.sort()
Alphabet == <<"Margao", "Panaji">>

\* api_states: the fallback list
StatesFallback ==
    <<"Andhra Pradesh", "Delhi", "Gujarat", "Karnataka", "Maharashtra",
      "Tamil Nadu", "Telangana", "Uttar Pradesh", "West Bengal">>

\* api_cities: sample_map (the entries of the states of StateParams)
SampleMap == [st \in {"Goa"} |-> <<"Panaji", "Margao">>]

\* the cache keys "states_IN" and f"cities_IN_{state}"
StatesKey == <<"states_IN", "">>
CitiesKey(st) == <<"cities_IN", st>>
LookupKeys == {StatesKey} \cup {CitiesKey(st) : st \in StateParams \ {""}}

\* a lookup key with no cache entry
NoList == [value |-> <<>>, expires |-> 0]

\* the rate-limit key rl:register:<ip>:<hash(ua) % 1000> of the client
Keys == {"k1"}

\* a key with no live cache entry
NoEntry == [count |-> 0, expires |-> 0]

VARIABLES
    pc,               \* pc[p]: the statement handler invocation p is at
    arg,              \* arg[p]: the inputs of the invocation in flight
    ops,              \* invocations started so far
    overlap,          \* the invocation started last ran beside another one
    raced,            \* some invocation ever ran beside another one
    pre,              \* the store when the last invocation started
    last,             \* the response of the invocation that ended last
    is_staff,         \* User.is_staff
    assigned_mentor,  \* UserProfile.assigned_mentor of each profile
    assignments,      \* MentorAssignment rows in pk order
    legacy,           \* MentorAssignment rows per mentor of students outside Users
    requests,         \* MentorRequest rows in pk order
    now,              \* the clock, in seconds
    cache,            \* cache[k]: the counter stored under key k and its expiry
    window,           \* window[k]: when the current window of k was opened (by an
                      \* admitted call that found no live counter), and the calls
                      \* admitted in it
    mentors,          \* the Mentor rows
    users,            \* auth.User rows created by register_post, in pk order
    profiles,         \* their UserProfile rows
    records,          \* their AcademicRecord rows
    tokens,           \* the EmailVerificationToken rows stored
    issued,           \* every EmailVerificationToken row ever saved
    logs,             \* RegistrationLog rows in pk order
    superusers,       \* the users with is_superuser set
    lookup            \* the cached lists of api_states / api_cities

vars == <<pc, arg, ops, overlap, raced, pre, last, is_staff,
          assigned_mentor, assignments, legacy, requests, now, cache, window,
          mentors, users, profiles, records, tokens, issued, logs,
          superusers, lookup>>

\* the tables of the mentor workflow, the rate limiter, the registration and
\* the accounts
mentorVars == <<assigned_mentor, assignments, legacy, requests, mentors>>
rateVars == <<now, cache, window>>
regVars == <<users, profiles, records, tokens, issued, logs, superusers>>

NoArg == [kind |-> "none"]

NoResponse == [kind |-> "none", result |-> "none", alone |-> TRUE]

\* the relational store and the cache as one value
Store == [assigned_mentor |-> assigned_mentor, assignments |-> assignments,
          requests |-> requests, is_staff |-> is_staff, cache |-> cache,
          users |-> users, profiles |-> profiles, records |-> records,
          tokens |-> tokens, issued |-> issued, logs |-> logs,
          superusers |-> superusers]

(***************************************************************************)
(* Queries and statements of the handlers, as functions of the tables.     *)
(***************************************************************************)
\* MentorRequest.objects.filter(user=u, status="pending")
PendingOf(reqs, u) ==
    {i \in 1..Len(reqs) : reqs[i].user = u /\ reqs[i].status = "pending"}

HasPendingNoCheck(reqs, u) == FALSE

\* ....exists()
HasPending(reqs, u) == PendingOf(reqs, u) # {}

\* MentorRequest.objects.create(user=u, status="pending")
CreateRequest(reqs, u) == Append(reqs, [user |-> u, status |-> "pending"])

ApproveAnyPending(reqs, u) ==
    IF \A j \in 1..Len(reqs) : reqs[j].status # "pending" THEN reqs
    ELSE LET i == CHOOSE j \in 1..Len(reqs) :
                      /\ reqs[j].status = "pending"
                      /\ \A k \in 1..j : reqs[k].status = "pending" => k = j
         IN  [reqs EXCEPT ![i].status = "approved"]

\* pending_request = ....first(); if pending_request: status = "approved"; save()
ApprovePending(reqs, u) ==
    IF PendingOf(reqs, u) = {} THEN reqs
    ELSE LET i == CHOOSE j \in PendingOf(reqs, u) :
                      \A k \in PendingOf(reqs, u) : j <= k
         IN  [reqs EXCEPT ![i].status = "approved"]

IsPrivilegedUnchecked(staff, u) == FALSE

\* user.is_staff or user.is_superuser
IsPrivileged(staff, u) == u \in staff \/ u \in Superusers

StaffMemberUnchecked(staff, u) == TRUE

\* staff_member_required: the caller is logged in, active and staff
StaffMember(staff, u) == u \in staff

\* MentorAssignment.objects.create(user=u, mentor=m, assigned_by=by)
CreateAssignment(rows, u, m, by) ==
    Append(rows, [user |-> u, mentor |-> m, assigned_by |-> by])

NotifyRaising(delivered) == IF delivered THEN "sent" ELSE "raised"

\* send_mentor_assignment, send_mentor_notification_to_mentor and
\* send_whatsapp_message keep their whole body inside try / except Exception
\* (and send_mail is called with fail_silently=True): a delivery that fails is
\* answered False and nothing is raised
Notify(delivered) == IF delivered THEN "sent" ELSE "failed"

\* the record of an invocation after a notification to recipient `to`
Noted(a, to, outcome) ==
    [a EXCEPT !.sent = Append(@, to),
              !.failed = IF outcome = "sent" THEN @ ELSE @ \cup {to}]

\* MentorAssignment.objects.filter(mentor=m).count()
MentorLoad(rows, leg, m) ==
    leg[m] + Cardinality({i \in 1..Len(rows) : rows[i].mentor = m})

\* MentorAssignmentForm.clean: a mentor with 10 rows takes no more students
MentorAvailable(rows, leg, m) == MentorLoad(rows, leg, m) < MentorCapacity

(***************************************************************************)
(* Bookkeeping of invocations.                                             *)
(***************************************************************************)
InFlight(p) == pc[p] # "idle"

AllIdle == \A p \in Procs : ~InFlight(p)

\* invocation p starts: the store is remembered, and whether p has company
Begin(p, limit) ==
    /\ pc[p] = "idle"
    /\ ops < limit
    /\ ops' = ops + 1
    /\ pre' = Store
    /\ overlap' = (\E q \in Procs \ {p} : InFlight(q))
    /\ raced' = (raced \/ overlap')

\* the response of an invocation that ends in its first step
Respond(a, res) ==
    last' = a @@ [result |-> res, alone |-> ~overlap']

\* the response of invocation p ending in a later step, a being its record
FinishWith(p, a, res) ==
    /\ pc' = [pc EXCEPT ![p] = "idle"]
    /\ arg' = [arg EXCEPT ![p] = NoArg]
    /\ last' = a @@ [result |-> res, alone |-> ~overlap]
    /\ UNCHANGED <<ops, overlap, raced, pre>>

Finish(p, res) == FinishWith(p, arg[p], res)

Goto(p, label) ==
    /\ pc' = [pc EXCEPT ![p] = label]
    /\ UNCHANGED <<arg, ops, overlap, raced, pre, last>>

(***************************************************************************)
(* request_mentor                                                          *)
(***************************************************************************)
\* the duplicate check; a duplicate is answered with a warning and a redirect
RequestMentor(p, u) ==
    LET a == [kind |-> "request_mentor", user |-> u]
    IN  /\ Begin(p, MaxOps)
        /\ IF HasPending(requests, u)
           THEN /\ Respond(a, "duplicate")
                /\ UNCHANGED <<pc, arg>>
           ELSE /\ pc' = [pc EXCEPT ![p] = "create_request"]
                /\ arg' = [arg EXCEPT ![p] = a]
                /\ UNCHANGED last
        /\ UNCHANGED <<is_staff, mentorVars, rateVars, regVars, lookup>>

InTransaction(before, after) == before

\* request_mentor runs in no transaction (no transaction.atomic, no
\* ATOMIC_REQUESTS): when it raises, the statements it executed stay committed
Autocommit(before, after) == after

\* the row is created, then the staff are mailed: send_mail is called without
\* fail_silently, so a mail failure leaves the handler as an exception
RequestCreate(p) ==
    /\ pc[p] = "create_request"
    /\ \E mailed \in BOOLEAN :
          LET created == CreateRequest(requests, arg[p].user)
          IN  IF mailed \/ is_staff = {}
              THEN /\ requests' = created
                   /\ Finish(p, "submitted")
              ELSE /\ requests' = Autocommit(requests, created)
                   /\ Finish(p, "exception")
    /\ UNCHANGED <<is_staff, assigned_mentor, assignments, legacy, mentors, rateVars, regVars, lookup>>

(***************************************************************************)
(* assign_mentor                                                           *)
(***************************************************************************)
\* the decorator, the method check, the two lookups, the staff check and the
\* read of user.profile: everything before the first write
AssignMentor(p, caller, method, uid, mid) ==
    LET a == [kind |-> "assign_mentor", by |-> caller, method |-> method,
              user |-> uid, mentor |-> mid, sent |-> <<>>, failed |-> {}]
        res == IF ~StaffMember(is_staff, caller) THEN "login"
               ELSE IF method # "POST" THEN "forbidden"
               ELSE IF uid \notin Users \/ mid \notin mentors THEN "invalid"
               ELSE IF IsPrivileged(is_staff, uid) THEN "refused"
               ELSE IF uid \notin Profiled THEN "exception"
               ELSE "go"
    IN  /\ Begin(p, MaxOps)
        /\ IF res = "go"
           THEN /\ pc' = [pc EXCEPT ![p] = "save_profile"]
                /\ arg' = [arg EXCEPT ![p] = a]
                /\ UNCHANGED last
           ELSE /\ Respond(a, res)
                /\ UNCHANGED <<pc, arg>>
        /\ UNCHANGED <<is_staff, mentorVars, rateVars, regVars, lookup>>

\* profile.assigned_mentor = mentor; profile.save() (the foreign key needs the
\* Mentor row to exist still)
AssignSaveProfile(p) ==
    /\ pc[p] = "save_profile"
    /\ arg[p].mentor \in mentors
    /\ assigned_mentor' = [assigned_mentor EXCEPT ![arg[p].user] = arg[p].mentor]
    /\ Goto(p, "create_assignment")
    /\ UNCHANGED <<is_staff, assignments, legacy, requests, mentors, rateVars, regVars, lookup>>

\* MentorAssignment.objects.create(...): the INSERT, committed on its own
AssignCreate(p) ==
    /\ pc[p] = "create_assignment"
    /\ arg[p].mentor \in mentors
    /\ assignments' = CreateAssignment(assignments, arg[p].user, arg[p].mentor, arg[p].by)
    /\ Goto(p, "receiver")
    /\ UNCHANGED <<is_staff, assigned_mentor, legacy, requests, mentors, rateVars, regVars, lookup>>

\* the post_save receiver handle_mentor_assignment, run by create() after the
\* INSERT: it saves the profile again (the profile object the view holds) and
\* notifies the student (send_mentor_assignment_notifications: the e-mail and,
\* for a profile with a phone number, the WhatsApp message)
AssignReceiver(p) ==
    /\ pc[p] = "receiver"
    /\ arg[p].mentor \in mentors
    /\ assigned_mentor' = [assigned_mentor EXCEPT ![arg[p].user] = arg[p].mentor]
    /\ \E delivered \in BOOLEAN :
          LET out == Notify(delivered)
              a == Noted(arg[p], "student", out)
          IN  IF out = "raised"
              THEN FinishWith(p, a, "exception")
              ELSE /\ pc' = [pc EXCEPT ![p] = "approve_request"]
                   /\ arg' = [arg EXCEPT ![p] = a]
                   /\ UNCHANGED <<ops, overlap, raced, pre, last>>
    /\ UNCHANGED <<is_staff, assignments, legacy, requests, mentors, rateVars, regVars, lookup>>

\* the first pending request is approved; the view notifies the student
\* (send_mentor_assignment) and the mentor
\* (send_mentor_notification_to_mentor); the success message and the redirect
AssignApprove(p) ==
    /\ pc[p] = "approve_request"
    /\ requests' = ApprovePending(requests, arg[p].user)
    /\ \E toStudent, toMentor \in BOOLEAN :
          LET s == Notify(toStudent)
              m == Notify(toMentor)
              a == Noted(Noted(arg[p], "student", s), "mentor", m)
          IN  FinishWith(p, a, IF "raised" \in {s, m} THEN "exception" ELSE "assigned")
    /\ UNCHANGED <<is_staff, assigned_mentor, assignments, legacy, mentors, rateVars, regVars, lookup>>

\* a store statement raises (a lock timeout, a lost connection): the handler
\* has no except clause and no transaction, so it ends there and the
\* statements already committed stay
StoreError(p) ==
    /\ pc[p] \in {"create_request", "save_profile", "create_assignment",
                "receiver", "approve_request"}
    /\ Finish(p, "error")
    /\ UNCHANGED <<is_staff, mentorVars, rateVars, regVars, lookup>>

(***************************************************************************)
(* Deleting a Mentor (the delete page of MentorAdmin)                      *)
(***************************************************************************)
\* MentorAssignment.mentor is on_delete=CASCADE: the rows of the mentor go
CascadeAssignments(rows, m) == SelectSeq(rows, LAMBDA r : r.mentor # m)

\* UserProfile.assigned_mentor is on_delete=SET_NULL; and the post_delete
\* receiver handle_mentor_unassignment sets assigned_mentor = None on the
\* profile of the user of every MentorAssignment row deleted
ClearMentor(am, rows, m) ==
    [u \in DOMAIN am |->
        IF am[u] = m \/ \E i \in 1..Len(rows) : rows[i].mentor = m /\ rows[i].user = u
        THEN NoMentor ELSE am[u]]

\* the admin site deletes the mentor and what depends on it in one transaction
DeleteMentor(p, caller, m) ==
    LET a == [kind |-> "delete_mentor", by |-> caller, mentor |-> m]
        res == IF ~StaffMember(is_staff, caller) THEN "login"
               ELSE IF m \notin mentors THEN "missing"
               ELSE "deleted"
    IN  /\ Begin(p, MaxOps)
        /\ Respond(a, res)
        /\ IF res = "deleted"
           THEN /\ mentors' = mentors \ {m}
                /\ assignments' = CascadeAssignments(assignments, m)
                /\ legacy' = [legacy EXCEPT ![m] = 0]
                /\ assigned_mentor' = ClearMentor(assigned_mentor, assignments, m)
           ELSE UNCHANGED <<mentors, assignments, legacy, assigned_mentor>>
        /\ UNCHANGED <<pc, arg, is_staff, requests, rateVars, regVars, lookup>>

\* MentorRequest.STATUS_CHOICES
StatusChoices == {"pending", "approved", "rejected"}

\* the change page of MentorRequestAdmin: status is an editable field, so a
\* staff member saves request i (0: an id that does not exist) with any of the
\* choices
ReviewRequest(p, caller, i, status) ==
    LET a == [kind |-> "review_request", by |-> caller, row |-> i,
              status |-> status]
        res == IF ~StaffMember(is_staff, caller) THEN "login"
               ELSE IF i \notin 1..Len(requests) THEN "missing"
               ELSE "saved"
    IN  /\ Begin(p, MaxOps)
        /\ Respond(a, res)
        /\ requests' = IF res = "saved"
                       THEN [requests EXCEPT ![i].status = status]
                       ELSE requests
        /\ UNCHANGED <<pc, arg, is_staff, assigned_mentor, assignments, legacy,
                       mentors, rateVars, regVars, lookup>>

(***************************************************************************)
(* The management command create_superuser                                 *)
(***************************************************************************)
\* if len(admin_list) > 4
CommandLimit == 4

\* an entry of DJANGO_SUPERUSER_ADMINS between two semicolons: the username
\* and the number of comma-separated fields it has
Entry(n, k) == [username |-> n, fields |-> k]

\* the values of DJANGO_SUPERUSER_ADMINS tried, split at the semicolons (<<>>
\* is the variable unset or empty): new names, a name of migration 0002, an
\* entry with two fields, and five entries
EnvLists ==
    {<<>>,
     <<Entry("b1", 3)>>,
     <<Entry("b2", 3), Entry("b2", 3)>>,
     <<Entry("a1", 3), Entry("b3", 3)>>,
     <<Entry("b4", 2), Entry("b3", 3)>>,
     <<Entry("b1", 3), Entry("b2", 3), Entry("b3", 3), Entry("b4", 3)>>,
     <<Entry("b1", 3), Entry("b2", 3), Entry("b3", 3), Entry("b4", 3),
       Entry("b5", 3)>>}

\* User.objects.filter(username=username).exists()
UsernameExists(accounts, n) == n \in accounts

\* the loop over admin_list: an entry that does not split into three fields
\* is reported and skipped (ValueError), an existing username is skipped, any
\* other entry becomes a superuser; the result is the set of accounts created
RECURSIVE CreateEach(_, _, _)
CreateEach(list, accounts, created) ==
    IF list = <<>> THEN created
    ELSE LET e == Head(list)
         IN  IF e.fields # 3 \/ UsernameExists(accounts \cup created, e.username)
             THEN CreateEach(Tail(list), accounts, created)
             ELSE CreateEach(Tail(list), accounts, created \cup {e.username})

\* Command.handle: nothing without the variable, nothing for more than four
\* entries, otherwise the loop; create_superuser sets is_staff and
\* is_superuser
CreateSuperuser(p, env) ==
    LET accounts == Users \cup superusers \cup is_staff
        res == IF env = <<>> THEN "unset"
               ELSE IF Len(env) > CommandLimit THEN "too_many"
               ELSE "done"
        created == IF res = "done" THEN CreateEach(env, accounts, {}) ELSE {}
        a == [kind |-> "create_superuser", env |-> env, created |-> created]
    IN  /\ Begin(p, MaxOps)
        /\ Respond(a, res)
        /\ superusers' = superusers \cup created
        /\ is_staff' = is_staff \cup created
        /\ UNCHANGED <<pc, arg, mentorVars, rateVars, users, profiles, records,
                       tokens, issued, logs, lookup>>

(***************************************************************************)
(* AdminRestrictionMiddleware and the user pages of the admin site         *)
(***************************************************************************)
\* User.objects.filter(is_staff=True).count()
AdminCount(staff) == Cardinality(staff)

\* _is_admin_creation_request: a POST that carries is_staff=on
IsAdminCreationRequest(method, staff_on) == method = "POST" /\ staff_on

\* CustomUserAdmin.has_add_permission: the add page repeats the count
HasAddPermission(staff, staff_on) ==
    ~(staff_on /\ AdminCount(staff) >= AdminLimit)

\* a request of caller c to the admin site: the add page or the change page of
\* account u, posted with the is_staff box ticked or not
AdminReq(c, v, u, on) == [by |-> c, view |-> v, user |-> u, staff_on |-> on]

AdminRequests ==
    {AdminReq("a1", "change", u, on) : u \in {"s1", "s2", "a2"}, on \in BOOLEAN} \cup
    {AdminReq("a1", "add", "u404", on) : on \in BOOLEAN} \cup
    {AdminReq("s1", "change", "s1", TRUE)}

\* the middleware counts the staff accounts and turns the request away at the
\* limit; the add page repeats the count in has_add_permission; the admin site
\* itself sends a caller who is not staff to its login page
AdminPost(p, caller, view, u, on) ==
    LET a == [kind |-> "admin_post", by |-> caller, view |-> view,
              user |-> u, staff_on |-> on]
        res == IF StaffMember(is_staff, caller) /\ IsAdminCreationRequest("POST", on)
                  /\ AdminCount(is_staff) >= AdminLimit THEN "forbidden"
               ELSE IF ~StaffMember(is_staff, caller) THEN "login"
               ELSE IF view = "add"
                    THEN IF HasAddPermission(is_staff, on) THEN "added" ELSE "forbidden"
               ELSE "go"
    IN  /\ Begin(p, MaxOps)
        /\ IF res = "go"
           THEN /\ pc' = [pc EXCEPT ![p] = "admin_save"]
                /\ arg' = [arg EXCEPT ![p] = a]
                /\ UNCHANGED last
           ELSE /\ Respond(a, res)
                /\ UNCHANGED <<pc, arg>>
        /\ UNCHANGED <<is_staff, mentorVars, rateVars, regVars, lookup>>

\* the change page saves the account with the posted is_staff
AdminSave(p) ==
    /\ pc[p] = "admin_save"
    /\ is_staff' = IF arg[p].staff_on THEN is_staff \cup {arg[p].user}
                   ELSE is_staff \ {arg[p].user}
    /\ Finish(p, "saved")
    /\ UNCHANGED <<mentorVars, rateVars, regVars, lookup>>

(***************************************************************************)
(* RegistrationRateLimitMiddleware                                         *)
(***************************************************************************)
\* an entry is gone once its expiry is reached
Live(entry, t) == t < entry.expires

\* cache.get(key, 0)
CacheGet(c, k, t) == IF Live(c[k], t) THEN c[k].count ELSE 0

\* cache.set(key, value, timeout=60)
CacheSet(c, k, v, t) == [c EXCEPT ![k] = [count |-> v, expires |-> t + RateWindow]]

OverLimitOffByOne(count) == count > RateLimit

\* if count >= 5
OverLimit(count) == count >= RateLimit

RejectCounted(c, k, count, t) == CacheSet(c, k, count + 1, t)

\* return JsonResponse({"error": "Too many requests"}, status=429): the
\* middleware returns before cache.set and before get_response
Reject(c, k, count, t) == c

\* a POST to /register/submit/ reads the counter of its key; at the limit it is
\* answered 429 and nothing is written
RegisterPost(p, k) ==
    LET count == CacheGet(cache, k, now)
        a == [kind |-> "register", key |-> k, count |-> count, at |-> now]
    IN  /\ Begin(p, MaxPosts)
        /\ IF OverLimit(count)
           THEN /\ cache' = Reject(cache, k, count, now)
                /\ Respond(a, "429")
                /\ UNCHANGED <<pc, arg>>
           ELSE /\ pc' = [pc EXCEPT ![p] = "cache_set"]
                /\ arg' = [arg EXCEPT ![p] = a]
                /\ UNCHANGED <<last, cache>>
        /\ UNCHANGED <<is_staff, mentorVars, now, window, regVars, lookup>>

\* the counter read is stored incremented with a fresh timeout, and the
\* request goes on to the registration view
RegisterAdmit(p) ==
    /\ pc[p] = "cache_set"
    /\ cache' = CacheSet(cache, arg[p].key, arg[p].count + 1, now)
    /\ window' = [window EXCEPT ![arg[p].key] =
                     IF arg[p].count = 0
                     THEN [start |-> now, admitted |-> 1]
                     ELSE [start |-> @.start, admitted |-> @.admitted + 1]]
    /\ Finish(p, "admitted")
    /\ UNCHANGED <<is_staff, mentorVars, now, regVars, lookup>>

\* any other request passes the middleware untouched
OtherRequest(p, k) ==
    /\ Begin(p, MaxPosts)
    /\ Respond([kind |-> "other", key |-> k], "passed")
    /\ UNCHANGED <<pc, arg, is_staff, mentorVars, rateVars, regVars, lookup>>

\* time passes
Tick ==
    /\ now < MaxTime
    /\ now' = now + TickLen
    /\ UNCHANGED <<pc, arg, ops, overlap, raced, pre, last, is_staff,
                   mentorVars, cache, window, regVars, lookup>>

(***************************************************************************)
(* register_post, verify_email and the EmailVerificationToken rows         *)
(***************************************************************************)
\* request.POST.get("email", "").strip().lower()
Lower(e) == IF e = "Ann@x.in" THEN "ann@x.in" ELSE e

\* User.objects.filter(email=email).exists()
EmailRegistered(rows, e) ==
    e \in SiteEmails \/ \E i \in 1..Len(rows) : rows[i].email = e

UsernameFree(rows, name) == FALSE

\* username = email; User.objects.create_user(username=username, ...): the
\* username column of auth.User is unique, a second row raises IntegrityError
UsernameTaken(rows, name) == \E i \in 1..Len(rows) : rows[i].username = name

\* the post_save receiver cleanup_expired_tokens, run after every save of an
\* EmailVerificationToken: the rows with expires_at < now are deleted
CleanupExpired(stored, all, t) == {k \in stored : ~(all[k].expires < t)}

\* EmailVerificationToken.objects.create(user=..., token=..., expires_at=...)
\* and its receiver; the token is the pk of the row in issued
SaveToken(all, u, expires) ==
    Append(all, [user |-> u, expires |-> expires, used |-> FALSE])

\* the method check, the field checks, the password validators and the
\* look-up of the address
RegisterView(p, f) ==
    LET email == Lower(f.email)
        a == [kind |-> "register_post", email |-> email, record |-> f.record]
        res == IF ~f.valid THEN "invalid"
               ELSE IF EmailRegistered(users, email) THEN "taken"
               ELSE "go"
    IN  /\ Begin(p, MaxOps)
        /\ IF res = "go"
           THEN /\ pc' = [pc EXCEPT ![p] = "register_commit"]
                /\ arg' = [arg EXCEPT ![p] = a]
                /\ UNCHANGED last
           ELSE /\ Respond(a, res)
                /\ UNCHANGED <<pc, arg>>
        /\ UNCHANGED <<is_staff, mentorVars, rateVars, regVars, lookup>>

\* the tables register_post writes, as one value
RegTables == [users |-> users, profiles |-> profiles, records |-> records,
              tokens |-> tokens, issued |-> issued, logs |-> logs]

\* the writes of register_post in the order of the code: create_user, the
\* profile (verified = True), the academic record, the token with its
\* receiver, the RegistrationLog row
WithUser(t, name) ==
    [t EXCEPT !.users = Append(@, [username |-> name, email |-> name])]

WithProfile(t, name) ==
    [t EXCEPT !.profiles = Append(@, [user |-> name, verified |-> TRUE])]

WithRecord(t, name) == [t EXCEPT !.records = Append(@, [user |-> name])]

WithToken(t, name, at) ==
    LET saved == SaveToken(t.issued, name, at + TokenLife)
    IN  [t EXCEPT !.issued = saved,
                  !.tokens = CleanupExpired(@ \cup {Len(saved)}, saved, at)]

WithLog(t, name) ==
    [t EXCEPT !.logs = Append(@, [user |-> name, status |-> "submitted"])]

\* the tables after the first k writes
Written(t, name, at, k) ==
    LET t1 == WithUser(t, name)
        t2 == WithProfile(t1, name)
        t3 == WithRecord(t2, name)
        t4 == WithToken(t3, name, at)
    IN  IF k = 1 THEN t1 ELSE IF k = 2 THEN t2 ELSE IF k = 3 THEN t3
        ELSE IF k = 4 THEN t4 ELSE WithLog(t4, name)

NoRollback(before, partial) == partial

\* @transaction.atomic: an exception that leaves the view rolls back every
\* write made since its start
Rollback(before, partial) == before

\* the tables become t
SetTables(t) ==
    /\ users' = t.users
    /\ profiles' = t.profiles
    /\ records' = t.records
    /\ tokens' = t.tokens
    /\ issued' = t.issued
    /\ logs' = t.logs

\* the body of register_post after the look-up, in one transaction: the
\* username is taken (IntegrityError at create_user); a malformed year or
\* lists of different lengths raise in the academic-record loop, after the
\* user and the profile were written; some later statement fails; or all the
\* writes are committed together
RegisterCommit(p) ==
    LET name == arg[p].email
    IN  /\ pc[p] = "register_commit"
        /\ \/ /\ UsernameTaken(users, name)
              /\ Finish(p, "exception")
              /\ UNCHANGED <<users, profiles, records, tokens, issued, logs>>
           \/ /\ ~UsernameTaken(users, name)
              /\ arg[p].record = "bad"
              /\ SetTables(Rollback(RegTables, Written(RegTables, name, now, 2)))
              /\ Finish(p, "value_error")
           \/ /\ ~UsernameTaken(users, name)
              /\ arg[p].record = "ok"
              /\ Len(issued) < MaxTokens
              /\ SetTables(Written(RegTables, name, now, 5))
              /\ Finish(p, "registered")
           \/ /\ ~UsernameTaken(users, name)
              /\ \E k \in 1..4 :
                    SetTables(Rollback(RegTables, Written(RegTables, name, now, k)))
              /\ Finish(p, "error")
        /\ UNCHANGED <<is_staff, mentorVars, rateVars, superusers, lookup>>

\* a token row saved for a registered user with a chosen expiry, as the tests
\* do: EmailVerificationToken.objects.create(...) and its receiver
TokenCreate(p, i, life) ==
    LET saved == SaveToken(issued, users[i].username, now + life)
        a == [kind |-> "token_create", token |-> Len(saved)]
    IN  /\ i \in 1..Len(users)
        /\ Len(issued) < MaxTokens
        /\ Begin(p, MaxOps)
        /\ issued' = saved
        /\ tokens' = CleanupExpired(tokens \cup {Len(saved)}, saved, now)
        /\ Respond(a, "saved")
        /\ UNCHANGED <<pc, arg, is_staff, mentorVars, rateVars, users, profiles,
                       records, logs, superusers, lookup>>

\* verify_email, first try block: the row is looked up by the token and the
\* signature is checked (token 0 is a string that was never stored)
VerifyEmail(p, t) ==
    LET a == [kind |-> "verify_email", token |-> t, at |-> now]
    IN  /\ Begin(p, MaxOps)
        /\ IF t \in tokens
           THEN /\ pc' = [pc EXCEPT ![p] = "verify_record"]
                /\ arg' = [arg EXCEPT ![p] = a]
                /\ UNCHANGED last
           ELSE /\ Respond(a, "invalid")
                /\ UNCHANGED <<pc, arg>>
        /\ UNCHANGED <<is_staff, mentorVars, rateVars, regVars, lookup>>

\* the index of the profile of user u, 0 if there is none
ProfileOf(rows, u) ==
    IF \E i \in 1..Len(rows) : rows[i].user = u
    THEN CHOOSE i \in 1..Len(rows) : rows[i].user = u
    ELSE 0

\* verify_email, second try block: the row is read again, its expiry is
\* compared with the clock, and the profile is saved verified
VerifyRecord(p) ==
    LET t == arg[p].token
        a == [arg[p] EXCEPT !.at = now]
        i == ProfileOf(profiles, issued[t].user)
    IN  /\ pc[p] = "verify_record"
        /\ IF t \notin tokens \/ (~(issued[t].expires < now) /\ i = 0)
           THEN /\ FinishWith(p, a, "failed")
                /\ UNCHANGED <<profiles, issued>>
           ELSE IF issued[t].expires < now
           THEN /\ FinishWith(p, a, "expired")
                /\ UNCHANGED <<profiles, issued>>
           ELSE /\ profiles' = [profiles EXCEPT ![i].verified = TRUE]
                /\ issued' = [issued EXCEPT ![t].used = TRUE]
                /\ FinishWith(p, a, "verified")
        /\ UNCHANGED <<is_staff, mentorVars, rateVars, users, records, tokens, logs,
                       superusers, lookup>>

\* half a day passes
Pass ==
    /\ now < MaxClock
    /\ now' = now + HalfDay
    /\ UNCHANGED <<pc, arg, ops, overlap, raced, pre, last, is_staff,
                   mentorVars, cache, window, regVars, lookup>>

(***************************************************************************)
(* api_states and api_cities                                               *)
(***************************************************************************)
\* cached = cache.get(cache_key); if cached: an entry that expired, and an
\* empty list, count as nothing cached
Cached(c, k, t) == IF t < c[k].expires THEN c[k].value ELSE <<>>

\* the names of the list (entries without a name dropped), sorted
SortedNames(data) ==
    SelectSeq(Alphabet, LAMBDA n : \E i \in 1..Len(data) : data[i] = n)

\* sample_map.get(state, [])
SampleCities(st) == IF st \in DOMAIN SampleMap THEN SampleMap[st] ELSE <<>>

CaughtURLError(o) == o.kind = "error"

\* except Exception: URLError and HTTPError, the socket timeout, and the
\* errors of decoding a body that is not as expected are all caught
Caught(o) == o.kind \in {"error", "timeout", "malformed"}

\* the cache is read; a cached list is the answer
ApiStates(p) ==
    LET hit == Cached(lookup, StatesKey, now)
        a == [kind |-> "api_states", state |-> "", key |-> StatesKey,
              provider |-> "none", body |-> hit]
    IN  /\ Begin(p, MaxLookups)
        /\ IF hit # <<>>
           THEN /\ Respond(a, "200")
                /\ UNCHANGED <<pc, arg>>
           ELSE /\ pc' = [pc EXCEPT ![p] = "fetch"]
                /\ arg' = [arg EXCEPT ![p] = a]
                /\ UNCHANGED last
        /\ UNCHANGED <<is_staff, mentorVars, rateVars, regVars, lookup>>

\* without a state the answer is the empty list; else the cache is read
ApiCities(p, st) ==
    LET key == CitiesKey(st)
        hit == IF st = "" THEN <<>> ELSE Cached(lookup, key, now)
        a == [kind |-> "api_cities", state |-> st, key |-> key,
              provider |-> "none", body |-> hit]
    IN  /\ Begin(p, MaxLookups)
        /\ IF st = "" \/ hit # <<>>
           THEN /\ Respond(a, "200")
                /\ UNCHANGED <<pc, arg>>
           ELSE /\ pc' = [pc EXCEPT ![p] = "fetch"]
                /\ arg' = [arg EXCEPT ![p] = a]
                /\ UNCHANGED last
        /\ UNCHANGED <<is_staff, mentorVars, rateVars, regVars, lookup>>

\* urlopen(req, timeout=10): the provider's list is sorted, cached for 24
\* hours and answered; a failure is answered with the static list
ProviderReply(p, o) ==
    LET a == [arg[p] EXCEPT !.provider = o.kind]
        names == SortedNames(o.data)
        static == IF a.kind = "api_states" THEN StatesFallback
                  ELSE SampleCities(a.state)
    IN  /\ pc[p] = "fetch"
        /\ IF o.kind = "ok"
           THEN /\ lookup' = [lookup EXCEPT ![a.key] =
                                 [value |-> names, expires |-> now + LookupLife]]
                /\ FinishWith(p, [a EXCEPT !.body = names], "200")
           ELSE IF Caught(o)
           THEN /\ FinishWith(p, [a EXCEPT !.body = static], "200")
                /\ UNCHANGED lookup
           ELSE /\ FinishWith(p, a, "exception")
                /\ UNCHANGED lookup
        /\ UNCHANGED <<is_staff, mentorVars, rateVars, regVars>>

(***************************************************************************)
(* The specifications.                                                     *)
(***************************************************************************)
InitCommon ==
    /\ pc = [p \in Procs |-> "idle"]
    /\ arg = [p \in Procs |-> NoArg]
    /\ ops = 0
    /\ overlap = FALSE
    /\ raced = FALSE
    /\ last = NoResponse
    /\ is_staff = InitialStaff
    /\ assigned_mentor = [u \in Profiled |-> NoMentor]
    /\ assignments = <<>>
    /\ requests = <<>>
    /\ now = 0
    /\ cache = [k \in Keys |-> NoEntry]
    /\ window = [k \in Keys |-> [start |-> 0, admitted |-> 0]]
    /\ mentors = Mentors
    /\ users = <<>>
    /\ profiles = <<>>
    /\ records = <<>>
    /\ tokens = {}
    /\ issued = <<>>
    /\ logs = <<>>
    /\ lookup = [k \in LookupKeys |-> NoList]

Init ==
    /\ InitCommon
    /\ superusers = Superusers
    /\ legacy = [m \in Mentors |-> 0]
    /\ pre = Store

Next ==
    \E p \in Procs :
        \/ \E u \in Requesters : RequestMentor(p, u)
        \/ RequestCreate(p)
        \/ \E r \in AssignRequests :
              AssignMentor(p, r.by, r.method, r.user, r.mentor)
        \/ AssignSaveProfile(p)
        \/ AssignCreate(p)
        \/ AssignReceiver(p)
        \/ AssignApprove(p)
        \/ StoreError(p)

Spec == Init /\ [][Next]_vars

\* a store in which mentor m1 already has 9 or 10 students outside Users
InitCap ==
    /\ InitCommon
    /\ superusers = Superusers
    /\ \E n \in {MentorCapacity - 1, MentorCapacity} :
          legacy = [m \in Mentors |-> IF m = "m1" THEN n ELSE 0]
    /\ pre = Store

SpecCap == InitCap /\ [][Next]_vars

\* the assignments that succeed, and the deletion of mentors
DeleteSetups == {AssignReq("a1", "POST", "s1", m) : m \in Mentors}

NextDelete ==
    \E p \in Procs :
        \/ \E r \in DeleteSetups :
              AssignMentor(p, r.by, r.method, r.user, r.mentor)
        \/ AssignSaveProfile(p)
        \/ AssignCreate(p)
        \/ AssignReceiver(p)
        \/ AssignApprove(p)
        \/ StoreError(p)
        \/ \E c \in {"a1", "s1"}, m \in Mentors : DeleteMentor(p, c, m)

SpecDelete == Init /\ [][NextDelete]_vars

\* assign_mentor calls for student s1 in which no statement fails
NextAssign ==
    \E p \in Procs :
        \/ \E r \in DeleteSetups :
              AssignMentor(p, r.by, r.method, r.user, r.mentor)
        \/ AssignSaveProfile(p)
        \/ AssignCreate(p)
        \/ AssignReceiver(p)
        \/ AssignApprove(p)

SpecAssign == Init /\ [][NextAssign]_vars

\* the mentor workflow beside the staff's review of requests on the admin site
ReviewSetups ==
    {AssignReq("a1", "POST", u, "m1") : u \in {"s1", "s2"}} \cup
    {AssignReq("s1", "POST", "s1", "m1")}

NextReview ==
    \E p \in Procs :
        \/ \E u \in {"s1", "s2"} : RequestMentor(p, u)
        \/ RequestCreate(p)
        \/ \E r \in ReviewSetups :
              AssignMentor(p, r.by, r.method, r.user, r.mentor)
        \/ AssignSaveProfile(p)
        \/ AssignCreate(p)
        \/ AssignReceiver(p)
        \/ AssignApprove(p)
        \/ StoreError(p)
        \/ \E c \in {"a1", "s1"}, i \in 0..Len(requests), st \in StatusChoices :
              ReviewRequest(p, c, i, st)

SpecReview == Init /\ [][NextReview]_vars

\* the command run against the accounts of migration 0002, some of which may
\* have lost their superuser status on the admin site since
InitSuper ==
    /\ InitCommon
    /\ legacy = [m \in Mentors |-> 0]
    /\ superusers \in SUBSET Superusers
    /\ pre = Store

NextSuper == \E p \in Procs, env \in EnvLists : CreateSuperuser(p, env)

SpecSuper == InitSuper /\ [][NextSuper]_vars

NextReg ==
    \/ \E p \in Procs :
          \/ \E f \in RegisterForms : RegisterView(p, f)
          \/ RegisterCommit(p)
          \/ \E i \in 1..MaxTokens, life \in {ExpiredLife, TokenLife} :
                TokenCreate(p, i, life)
          \/ \E t \in 0..MaxTokens : VerifyEmail(p, t)
          \/ VerifyRecord(p)
    \/ Pass

SpecReg == Init /\ [][NextReg]_vars

NextLookup ==
    \/ \E p \in Procs :
          \/ ApiStates(p)
          \/ \E st \in StateParams : ApiCities(p, st)
          \/ \E o \in ProviderOutcomes : ProviderReply(p, o)
    \/ Pass

SpecLookup == Init /\ [][NextLookup]_vars

NextAdmin ==
    \E p \in Procs :
        \/ \E r \in AdminRequests : AdminPost(p, r.by, r.view, r.user, r.staff_on)
        \/ AdminSave(p)

SpecAdmin == Init /\ [][NextAdmin]_vars

NextRate ==
    \/ \E p \in Procs :
          \/ \E k \in Keys : RegisterPost(p, k)
          \/ RegisterAdmit(p)
          \/ \E k \in Keys : OtherRequest(p, k)
    \/ Tick

SpecRate == Init /\ [][NextRate]_vars

(***************************************************************************)
(* Helpers of the properties (they use no definition of the handlers).     *)
(***************************************************************************)
PendingRows(reqs, u) ==
    {i \in 1..Len(reqs) : reqs[i].user = u /\ reqs[i].status = "pending"}

PendingRow(u) == [user |-> u, status |-> "pending"]

\* the mentor workflow's tables are as they were when the last invocation began
MentorTablesAsBefore ==
    /\ assigned_mentor = pre.assigned_mentor
    /\ assignments = pre.assignments
    /\ requests = pre.requests

\* the last invocation has ended, and nothing ran beside it
EndedAlone(kind) == AllIdle /\ last.kind = kind /\ last.alone

(***************************************************************************)
(* The mentor workflow.                                                    *)
(***************************************************************************)
\* C1: as long as request_mentor calls follow one another (no two handlers
\* ever overlap), a student has at most one pending MentorRequest; a call made
\* while the student has a pending request is answered "duplicate" and leaves
\* the table as it was; a call made without one appends exactly one pending
\* row (unless the store itself fails), after which the student has exactly
\* one pending row.
C1_OnlyFirstRequestCreates ==
    /\ ~raced => \A u \in Users : Cardinality(PendingRows(requests, u)) <= 1
    /\ (EndedAlone("request_mentor") /\ ~raced) =>
          IF PendingRows(pre.requests, last.user) # {}
          THEN /\ last.result = "duplicate"
               /\ requests = pre.requests
          ELSE \/ /\ last.result = "error"
                  /\ requests = pre.requests
               \/ /\ last.result \in {"submitted", "exception"}
                  /\ requests = Append(pre.requests, PendingRow(last.user))
                  /\ Cardinality(PendingRows(requests, last.user)) = 1

C1_Witness ==
    /\ EndedAlone("request_mentor")
    /\ ~raced
    /\ last.result = "duplicate"
    /\ Cardinality(PendingRows(requests, last.user)) = 1

\* C2: no reachable state has two pending MentorRequest rows of one student,
\* also when request_mentor invocations of that student run concurrently.
C2_NoTwoPending ==
    \A u \in Users : Cardinality(PendingRows(requests, u)) <= 1

\* C4: when assign_mentor reports success, the student's assigned_mentor is
\* that mentor, exactly one MentorAssignment row (student, mentor, staff) was
\* added, and every request of the student that was pending before the call is
\* approved.
C4_AssignPostcondition ==
    (EndedAlone("assign_mentor") /\ last.result = "assigned") =>
        /\ assigned_mentor[last.user] = last.mentor
        /\ assignments = Append(pre.assignments,
              [user |-> last.user, mentor |-> last.mentor, assigned_by |-> last.by])
        /\ \A i \in PendingRows(pre.requests, last.user) :
              requests[i].status = "approved"

\* C5: an assign_mentor call that does not succeed leaves assigned_mentor, the
\* MentorAssignment rows and the MentorRequest rows as they were before it.
C5_AssignAllOrNothing ==
    (EndedAlone("assign_mentor") /\ last.result # "assigned") =>
        MentorTablesAsBefore

\* C8: assign_mentor succeeds only for a mentor that had fewer than 10
\* assignments, so no mentor ever has more than 10.
C8_CapacityEnforced ==
    /\ (EndedAlone("assign_mentor") /\ last.result = "assigned") =>
          MentorLoad(pre.assignments, legacy, last.mentor) < MentorCapacity
    /\ \A m \in Mentors : MentorLoad(assignments, legacy, m) <= MentorCapacity

C10_StaffPostAssigns ==
    (EndedAlone("assign_mentor") /\ last.method = "POST" /\ last.by \in is_staff
        /\ last.user \in Profiled /\ last.mentor \in Mentors
        /\ last.result # "error") =>
        /\ \E i \in 1..Len(assignments) :
              assignments[i].user = last.user /\ assignments[i].mentor = last.mentor
        /\ assigned_mentor[last.user] = last.mentor

\* C11: when the notification of the student, the one of the mentor, or both
\* fail during assign_mentor (and the store does not), the caller is still
\* told the assignment succeeded; the student's assigned_mentor is the mentor,
\* the new MentorAssignment row is there, the student's first pending request
\* is approved and no other request row changed; and the notifications
\* attempted are the ones of a call without failures (the receiver's and the
\* view's to the student, the view's to the mentor), none attempted again.
C11_NotificationFailureKeepsAssignment ==
    (EndedAlone("assign_mentor") /\ last.failed # {} /\ last.result # "error") =>
        /\ last.result = "assigned"
        /\ assigned_mentor[last.user] = last.mentor
        /\ assignments = Append(pre.assignments,
              [user |-> last.user, mentor |-> last.mentor, assigned_by |-> last.by])
        /\ Len(requests) = Len(pre.requests)
        /\ \A i \in 1..Len(requests) :
              IF /\ i \in PendingRows(pre.requests, last.user)
                 /\ \A j \in PendingRows(pre.requests, last.user) : i <= j
              THEN requests[i] = [user |-> last.user, status |-> "approved"]
              ELSE requests[i] = pre.requests[i]
        /\ last.sent = <<"student", "student", "mentor">>

C11_Witness ==
    /\ EndedAlone("assign_mentor")
    /\ last.failed = {"student", "mentor"}
    /\ last.result = "assigned"
    /\ PendingRows(pre.requests, last.user) # {}
    /\ assigned_mentor[last.user] = last.mentor

\* C12: a request_mentor call of a student whose profile has an assigned
\* mentor is refused: it creates no MentorRequest row, whether or not the
\* student has a pending request.
C12_MentoredStudentRefused ==
    (EndedAlone("request_mentor") /\ last.user \in Profiled
        /\ pre.assigned_mentor[last.user] # NoMentor) =>
        requests = pre.requests

\* C13: when the staff notification of request_mentor fails, the MentorRequest
\* row the call created stays in the table with status pending.
C13_RequestKeptOnMailFailure ==
    (EndedAlone("request_mentor") /\ last.result = "exception") =>
        requests = Append(pre.requests, PendingRow(last.user))

C13_Witness ==
    /\ EndedAlone("request_mentor")
    /\ last.result = "exception"
    /\ PendingRows(pre.requests, last.user) = {}
    /\ PendingRows(requests, last.user) # {}

\* C14: no request_mentor or assign_mentor call ends in an uncaught exception:
\* a failing staff notification, or a target without a profile, ends in a
\* message and a redirect.
C14_NoUnhandledFault ==
    last.kind \in {"request_mentor", "assign_mentor"} => last.result # "exception"

\* C15: when a mentor is deleted, every student whose assigned_mentor was that
\* mentor has it cleared, and the MentorAssignment rows that recorded
\* assignments to that mentor are still in the table.
C15_MentorDeletionKeepsAudit ==
    (EndedAlone("delete_mentor") /\ last.result = "deleted") =>
        /\ \A u \in Profiled :
              pre.assigned_mentor[u] = last.mentor => assigned_mentor[u] = NoMentor
        /\ \A i \in 1..Len(pre.assignments) :
              pre.assignments[i].mentor = last.mentor =>
                  \E j \in 1..Len(assignments) : assignments[j] = pre.assignments[i]

\* C18: an assign_mentor request of a caller that is not logged in or is not
\* staff is sent to the login page; it changes no assigned_mentor, creates no
\* MentorAssignment row, changes no MentorRequest and attempts no notification.
C18_OnlyStaffAssign ==
    (EndedAlone("assign_mentor") /\ last.by \notin is_staff) =>
        /\ last.result = "login"
        /\ MentorTablesAsBefore
        /\ last.sent = <<>>

C18_Witness ==
    /\ EndedAlone("assign_mentor")
    /\ last.by \notin is_staff
    /\ last.method = "POST"
    /\ last.user \in Profiled \ is_staff
    /\ last.mentor \in mentors
    /\ last.result = "login"

(***************************************************************************)
(* Registration and verification.                                          *)
(***************************************************************************)
\* the tables written by register_post are as they were when the last
\* invocation began
RegistrationAsBefore ==
    /\ users = pre.users
    /\ profiles = pre.profiles
    /\ records = pre.records
    /\ tokens = pre.tokens
    /\ issued = pre.issued
    /\ logs = pre.logs

\* C16: the verified flag of a profile is set by the verification flow only:
\* the profile register_post creates is not verified, and a profile is
\* verified only once verify_email has accepted a stored, unexpired token of
\* its user.
C16_VerifiedOnlyByVerification ==
    \A i \in 1..Len(profiles) :
        profiles[i].verified =>
            \E t \in 1..Len(issued) :
                issued[t].user = profiles[i].user /\ issued[t].used

\* C17: verify_email called with a token that was saved (so correctly signed)
\* and whose expires_at lies in the past answers "Token expired" and leaves
\* the verified flags as they were, also for a token saved already expired.
C17_ExpiredTokenAnswer ==
    (EndedAlone("verify_email") /\ last.token \in 1..Len(issued)
        /\ issued[last.token].expires < last.at) =>
        /\ last.result = "expired"
        /\ profiles = pre.profiles

\* C20: no two User rows carry the same e-mail address (compared as
\* register_post compares them, in lower case), none carries the address of
\* an account that existed before, also when submissions with the same
\* address run concurrently; and a submission that names an address already
\* registered when it is made creates no User, UserProfile, AcademicRecord or
\* token row.
C20_OneAccountPerEmail ==
    /\ \A i, j \in 1..Len(users) :
          Lower(users[i].email) = Lower(users[j].email) => i = j
    /\ \A i \in 1..Len(users) : users[i].email \notin SiteEmails
    /\ (EndedAlone("register_post")
           /\ (last.email \in SiteEmails
                  \/ \E i \in 1..Len(pre.users) : pre.users[i].email = last.email)) =>
          /\ last.result \in {"invalid", "taken"}
          /\ RegistrationAsBefore

C20_Witness ==
    /\ AllIdle
    /\ last.kind = "register_post"
    /\ ~last.alone
    /\ last.result = "exception"
    /\ Cardinality({i \in 1..Len(users) : users[i].email = last.email}) = 1

(***************************************************************************)
(* The lookups.                                                            *)
(***************************************************************************)
\* C19: api_states and api_cities always answer normally; when the provider
\* is consulted (nothing is cached) and errors, times out or answers
\* something unusable, the answer carries the static fallback list: the nine
\* states, or the sample cities of the state asked for.
C19_LookupFallsBack ==
    last.kind \in {"api_states", "api_cities"} =>
        /\ last.result = "200"
        /\ last.provider \in {"error", "timeout", "malformed"} =>
              last.body = IF last.kind = "api_states"
                          THEN <<"Andhra Pradesh", "Delhi", "Gujarat", "Karnataka",
                                 "Maharashtra", "Tamil Nadu", "Telangana",
                                 "Uttar Pradesh", "West Bengal">>
                          ELSE IF last.state = "Goa" THEN <<"Panaji", "Margao">>
                          ELSE <<>>

C19_Witness ==
    /\ last.kind = "api_cities"
    /\ last.state = "Goa"
    /\ last.provider = "timeout"
    /\ last.result = "200"
    /\ last.body = <<"Panaji", "Margao">>

(***************************************************************************)
(* The admin quota.                                                        *)
(***************************************************************************)
\* C3: the number of staff accounts never exceeds 4, also when grants through
\* the admin site run concurrently.
C3_StaffQuota == Cardinality(is_staff) <= AdminLimit

C7_FixedOriginWindow ==
    ~raced => \A k \in Keys :
        now < cache[k].expires =>
            cache[k].expires = window[k].start + RateWindow

(***************************************************************************)
(* The audit log, the limiter under rejection and under interleaving.      *)
(***************************************************************************)
\* C21: after a request_mentor call of a logged-in student that ended in
\* "Mentor request submitted.", a RegistrationLog row of that student with
\* status "mentor_requested" exists.
C21_RequestLogged ==
    (EndedAlone("request_mentor") /\ last.result = "submitted") =>
        \E i \in 1..Len(logs) :
            logs[i] = [user |-> last.user, status |-> "mentor_requested"]

\* C22: a registration POST answered 429 changes nothing: the counter of the
\* client and its expiry are as they were, the call is not counted as
\* admitted, and no row of the registration tables is written; so the
\* lock-out still ends when the counter found expires.
C22_RejectionChangesNothing ==
    (EndedAlone("register") /\ last.result = "429") =>
        /\ cache = pre.cache
        /\ cache[last.key].expires > last.at
        /\ RegistrationAsBefore

C22_Witness ==
    /\ EndedAlone("register")
    /\ last.result = "429"
    /\ last.at > window[last.key].start
    /\ cache[last.key].count = RateLimit

EndsAssignFor(u) ==
    /\ \E p \in Procs : InFlight(p) /\ pc'[p] = "idle"
    /\ last'.kind = "assign_mentor"
    /\ last'.result = "assigned"
    /\ last'.user = u

\* the step is a save of row i on the admin change page by a staff member
StaffReviewOf(i) ==
    /\ ops' = ops + 1
    /\ last'.kind = "review_request"
    /\ last'.result = "saved"
    /\ last'.row = i
    /\ last'.by \in is_staff

TimesNotified(sent, r) == Cardinality({i \in 1..Len(sent) : sent[i] = r})

\* C25: a successful assign_mentor sends exactly one assignment notification
\* to the student and exactly one new-mentee notification to the mentor, the
\* view's calls and the post_save receiver's taken together.
C25_OneNotificationEach ==
    (EndedAlone("assign_mentor") /\ last.result = "assigned") =>
        /\ TimesNotified(last.sent, "student") = 1
        /\ TimesNotified(last.sent, "mentor") = 1

(***************************************************************************)
(* The staff quota and accounts that are staff already.                    *)
(***************************************************************************)
\* C26: with exactly 4 staff accounts, a staff member's admin POST that edits
\* an account that is staff already and leaves is_staff on is not rejected for
\* quota, since it does not raise the number of staff accounts.
C26_EditOfStaffNotRejected ==
    (/\ EndedAlone("admin_post")
     /\ Cardinality(pre.is_staff) = AdminLimit
     /\ last.by \in pre.is_staff
     /\ last.view = "change"
     /\ last.user \in pre.is_staff
     /\ last.staff_on) =>
        last.result # "forbidden"

(***************************************************************************)
(* The current mentor and the audit rows.                                  *)
(***************************************************************************)
\* the MentorAssignment rows of student u, in the order they were created
RowsOf(rows, u) == SelectSeq(rows, LAMBDA r : r.user = u)

\* C27: once every assign_mentor call for a student has ended successfully,
\* two of them having run concurrently or not, the student's assigned_mentor
\* is the mentor of the student's most recently created MentorAssignment row.
C27_MentorIsLatestAssignment ==
    (AllIdle /\ last.kind = "assign_mentor") =>
        \A u \in Profiled :
            LET mine == RowsOf(assignments, u)
            IN  mine # <<>> => assigned_mentor[u] = mine[Len(mine)].mentor


\* C28: when MentorAssignment rows are removed whose mentor is not the
\* student's current assigned_mentor (the cascade of deleting a mentor the
\* student was assigned to earlier), the student's assigned_mentor stays as it
\* was.
C28_OldRowRemovalKeepsMentor ==
    (EndedAlone("delete_mentor") /\ last.result = "deleted") =>
        \A u \in Profiled :
            pre.assigned_mentor[u] # last.mentor =>
                assigned_mentor[u] = pre.assigned_mentor[u]

(***************************************************************************)
(* register_post as a transaction.                                         *)
(***************************************************************************)
\* C29: register_post is all-or-nothing: a submission that fails after its
\* User row was written (a malformed academic record, a failing statement) or
\* at create_user leaves no User, UserProfile, AcademicRecord,
\* EmailVerificationToken or RegistrationLog row behind; the tables are as
\* they were before it.
C29_RegisterAllOrNothing ==
    (EndedAlone("register_post")
        /\ last.result \in {"value_error", "error", "exception"}) =>
        RegistrationAsBefore

C29_Witness ==
    /\ EndedAlone("register_post")
    /\ last.result = "value_error"
    /\ last.record = "bad"
    /\ \A i \in 1..Len(users) : users[i].username # last.email
    /\ \A i \in 1..Len(profiles) : profiles[i].user # last.email
    /\ Len(pre.users) > 0

(***************************************************************************)
(* The create_superuser command.                                           *)
(***************************************************************************)
\* C30: after the create_superuser command has run there are at most 4
\* superuser accounts, whatever accounts existed before (the four of migration
\* 0002 included), and a run whose environment lists more than 4 admins
\* creates none.
C30_AtMostFourSuperusers ==
    EndedAlone("create_superuser") =>
        /\ Cardinality(superusers) <= CommandLimit
        /\ Len(last.env) > CommandLimit => superusers = pre.superusers

=============================================================================
